---- MODULE Spec2Model ----
(***************************************************************************)
(* Model of sizing-mcp.py: calculate_sizing_requirements and the helpers   *)
(* nested in it, and the instance catalog search_instances.                *)
(*                                                                         *)
(* Python dicts are records that hold only the keys that are present;      *)
(* dict.get(k, default) is Get.  Python lists are sequences.               *)
(*                                                                         *)
(* Python floats are IEEE 754 doubles.  A float is a record                *)
(*     [c |-> "finite", s |-> s, m |-> m, x |-> x]                         *)
(* that stands for s * m * 2^x, with the sign s in {1, -1} and an odd m    *)
(* (0 is m = <<>>, x = 0, of either sign), or has c = "inf" or c = "nan".  *)
(* Every operation computes its exact result and rounds it to the nearest  *)
(* double, ties to even, as the hardware does.  m is a sequence of limbs,  *)
(* because a 53-bit significand and the product of two are outside the     *)
(* range of 32-bit integers.                                               *)
(*                                                                         *)
(* Python ints are unbounded.  The ints the arguments and the catalog hold *)
(* are TLA+ integers; the ints computed from them are records              *)
(*     [s |-> s, m |-> m]                                                  *)
(* of a sign and the limbs of the magnitude (BigInt turns the one into the *)
(* other, FromInt and ToFloat turn them into floats).  An int that meets a *)
(* float is converted first, and an int past the largest float raises      *)
(* OverflowError there, as does an int / int with such a quotient.         *)
(*                                                                         *)
(* An expression that can raise gives Ok(value) or Raise(exception).       *)
(***************************************************************************)
EXTENDS Integers, Sequences, FiniteSets, TLC

VARIABLES
    lexical_sizing,            \* argument of calculate_sizing_requirements
    vector_sizing,             \* argument of calculate_sizing_requirements
    reindex_space_multiplier,  \* argument of calculate_sizing_requirements
    pc,                        \* position in the body of the call
    raised,                    \* "" or the exception that ended the call
    lexical_results,           \* local, line 179
    vector_results,            \* local, line 180
    total_storage,             \* local, line 182
    total_ram,                 \* local, line 183
    total_vcpu,                \* local, line 184
    idx,                       \* position of the for loop of line 188
    suggested_instance,        \* local, line 187 / 192
    result,                    \* <<>> or <<the dict returned at line 195>>
    field,                     \* argument of _get_total_autocomplete_chars
    avg_chars,                 \* local of _get_total_autocomplete_chars
    chars                      \* <<>> or <<value _get_total_autocomplete_chars returned>>

vars == <<lexical_sizing, vector_sizing, reindex_space_multiplier, pc, raised,
          lexical_results, vector_results, total_storage, total_ram,
          total_vcpu, idx, suggested_instance, result, field, avg_chars,
          chars>>

-----------------------------------------------------------------------------
(* Natural numbers of any size: little-endian sequences of limbs below     *)
(* Base without a zero limb at the top; <<>> is 0                          *)

Min(a, b) == IF a <= b THEN a ELSE b

Max(a, b) == IF a >= b THEN a ELSE b

Pow2(k) == 2 ^ k

LimbBits == 15

Base == 32768

\* the limbs of an int n >= 0
RECURSIVE Limbs(_)
Limbs(n) == IF n = 0 THEN <<>> ELSE <<n % Base>> \o Limbs(n \div Base)

\* the int a sequence of limbs stands for
RECURSIVE NatVal(_)
NatVal(a) == IF a = <<>> THEN 0 ELSE a[1] + Base * NatVal(Tail(a))

\* limb i of a, 0 past its top
At(a, i) == IF i \in DOMAIN a THEN a[i] ELSE 0

Zeros(q) == [i \in 1..q |-> 0]

\* the place of the highest and of the lowest limb of a that is not 0
Top(a) == CHOOSE i \in DOMAIN a : a[i] # 0 /\ \A j \in (i + 1)..Len(a) : a[j] = 0

Lowest(a) == CHOOSE i \in DOMAIN a : a[i] # 0 /\ \A j \in 1..(i - 1) : a[j] = 0

\* a without the zero limbs at its top
Trim(a) ==
    IF a = <<>> THEN <<>>
    ELSE IF a[Len(a)] # 0 THEN SubSeq(a, 1, Len(a))
    ELSE IF \A i \in DOMAIN a : a[i] = 0 THEN <<>>
    ELSE SubSeq(a, 1, Top(a))

\* number of bits of an int n >= 0
RECURSIVE Bits(_)
Bits(n) == IF n = 0 THEN 0 ELSE 1 + Bits(n \div 2)

\* number of factors two of an int n > 0
RECURSIVE TwoAdic(_)
TwoAdic(n) == IF n % 2 = 1 THEN 0 ELSE 1 + TwoAdic(n \div 2)

BitLen(a) == IF a = <<>> THEN 0 ELSE LimbBits * (Len(a) - 1) + Bits(a[Len(a)])

\* number of factors two of a > 0
TrailingZerosAt(a, i) == LimbBits * (i - 1) + TwoAdic(a[i])

TrailingZeros(a) == TrailingZerosAt(a, IF a[1] # 0 THEN 1 ELSE Lowest(a))

\* bit j of a
Bit(a, j) ==
    IF j >= LimbBits * Len(a) THEN 0
    ELSE (a[j \div LimbBits + 1] \div Pow2(j % LimbBits)) % 2

\* a > b for a and b of one length: the highest limb that differs decides
Greater(a, b) == \E i \in DOMAIN a : a[i] > b[i] /\ \A j \in (i + 1)..Len(a) : a[j] = b[j]

\* -1, 0, 1 as a < b, a = b, a > b
NCmp(a, b) ==
    IF Len(a) < Len(b) THEN -1
    ELSE IF Len(a) > Len(b) THEN 1
    ELSE IF a = b THEN 0
    ELSE IF Greater(a, b) THEN 1
    ELSE -1

\* the limbs of the number that holds the ints s at the places lo..hi, with
\* the carry c into place lo: the limbs d and the carry out of place hi (a
\* borrow is a carry of -1), the lower half of the places and then the upper
\* half from the carry out of the lower
RECURSIVE Carry(_, _, _, _)
CarryJoin(low, high) == [d |-> low.d \o high.d, c |-> high.c]

CarryAbove(s, low, mid, hi) == CarryJoin(low, Carry(s, mid + 1, hi, low.c))

Carry(s, lo, hi, c) ==
    IF lo > hi THEN [d |-> <<>>, c |-> c]
    ELSE IF lo = hi THEN [d |-> <<(s[lo] + c) % Base>>, c |-> (s[lo] + c) \div Base]
    ELSE CarryAbove(s, Carry(s, lo, (lo + hi) \div 2, c), (lo + hi) \div 2, hi)

\* the carry out is the limb at the top
CarryOut(r) == Trim(r.d \o <<r.c>>)

Carried(s, c) == CarryOut(Carry(s, 1, Len(s), c))

\* a + b
NAdd(a, b) == Carried([i \in 1..Max(Len(a), Len(b)) |-> At(a, i) + At(b, i)], 0)

\* a - b, a >= b
NSub(a, b) == Carried([i \in DOMAIN a |-> a[i] - At(b, i)], 0)

\* a * k + c for ints 0 < k < Base, 0 <= c < Base
MulC(a, k, c) == Carried([i \in DOMAIN a |-> a[i] * k], c)

MulSmall(a, k) == IF k = 0 THEN <<>> ELSE MulC(a, k, 0)

\* a * Base^q
ShiftLimbs(a, q) == IF a = <<>> THEN a ELSE Zeros(q) \o a

\* a * b, by the halves of b
RECURSIVE NMul(_, _)
NMulHalves(a, b, h) ==
    NAdd(NMul(a, Trim(SubSeq(b, 1, h))),
         ShiftLimbs(NMul(a, SubSeq(b, h + 1, Len(b))), h))

NMul(a, b) ==
    IF a = <<>> \/ b = <<>> THEN <<>>
    ELSE IF Len(b) = 1 THEN MulSmall(a, b[1])
    ELSE NMulHalves(a, b, Len(b) \div 2)

\* a * 2^k
Shl(a, k) ==
    IF a = <<>> \/ k = 0 THEN a
    ELSE IF k % LimbBits = 0 THEN Zeros(k \div LimbBits) \o a
    ELSE Zeros(k \div LimbBits) \o MulC(a, Pow2(k % LimbBits), 0)

\* a \div 2^r for 0 < r < LimbBits
ShrBits(a, r) ==
    [i \in DOMAIN a |-> (a[i] \div Pow2(r)) + (At(a, i + 1) % Pow2(r)) * Pow2(LimbBits - r)]

\* a \div 2^k
Shr(a, k) ==
    IF k = 0 THEN a
    ELSE IF k >= LimbBits * Len(a) THEN <<>>
    ELSE IF k % LimbBits = 0 THEN SubSeq(a, k \div LimbBits + 1, Len(a))
    ELSE Trim(ShrBits(SubSeq(a, k \div LimbBits + 1, Len(a)), k % LimbBits))

\* the greatest int d with b * d <= X, found bit by bit from d and step
RECURSIVE Digit(_, _, _, _)
Digit(X, b, d, step) ==
    IF step = 0 THEN d
    ELSE IF NCmp(MulC(b, d + step, 0), X) <= 0 THEN Digit(X, b, d + step, step \div 2)
    ELSE Digit(X, b, d, step \div 2)

\* one limb d of a quotient, and the remainder X - b * d
DivOut(X, b, d) == [q |-> <<d>>, r |-> NSub(X, MulSmall(b, d))]

\* X is the remainder so far with the next limb of the dividend under it
DivDigit(X, b) ==
    DivOut(X, b, IF Len(b) = 1 THEN NatVal(X) \div b[1] ELSE Digit(X, b, 0, Base \div 2))

\* the limbs of `low` under those of `high`
DivJoin(high, low) == [q |-> low.q \o high.q, r |-> low.r]

\* the long division of the limbs a (as many limbs of quotient) by b > 0,
\* from a remainder r < b above them: the top half of a, then the bottom half
\* from the remainder that the top half leaves; nothing is left to divide
\* when that remainder and the bottom half are 0
RECURSIVE DivFrom(_, _, _)
DivBelow(high, a, b) ==
    IF high.r = <<>> /\ \A i \in DOMAIN a : a[i] = 0
    THEN DivJoin(high, [q |-> a, r |-> <<>>])
    ELSE DivJoin(high, DivFrom(high.r, a, b))

DivFrom(r, a, b) ==
    IF Len(a) = 0 THEN [q |-> <<>>, r |-> r]
    ELSE IF Len(a) = 1 THEN DivDigit(Trim(<<a[1]>> \o r), b)
    ELSE DivBelow(DivFrom(r, SubSeq(a, Len(a) \div 2 + 1, Len(a)), b),
                  SubSeq(a, 1, Len(a) \div 2), b)

DivTrim(t) == [q |-> Trim(t.q), r |-> t.r]

\* quotient q and remainder r of a by b > 0; the Len(b) - 1 limbs at the top
\* of a are below b and start as the remainder
DivMod(a, b) ==
    IF Len(a) < Len(b) THEN [q |-> <<>>, r |-> a]
    ELSE DivTrim(DivFrom(SubSeq(a, Len(a) - Len(b) + 2, Len(a)),
                         SubSeq(a, 1, Len(a) - Len(b) + 1), b))

-----------------------------------------------------------------------------
(* Python ints: a sign s and the limbs m of the magnitude; 0 has the sign 1 *)

\* the Python int of a TLA+ integer
BigInt(i) == [s |-> IF i < 0 THEN -1 ELSE 1, m |-> Limbs(IF i < 0 THEN -i ELSE i)]

\* -a
BigNeg(a) == [s |-> IF a.m = <<>> THEN 1 ELSE -a.s, m |-> a.m]

\* int * int
BigMul(a, b) ==
    LET m == NMul(a.m, b.m)
    IN  [s |-> IF m = <<>> THEN 1 ELSE a.s * b.s, m |-> m]

\* int + int
BigAdd(a, b) ==
    IF a.s = b.s THEN [s |-> a.s, m |-> NAdd(a.m, b.m)]
    ELSE IF NCmp(a.m, b.m) = 0 THEN [s |-> 1, m |-> <<>>]
    ELSE IF NCmp(a.m, b.m) > 0 THEN [s |-> a.s, m |-> NSub(a.m, b.m)]
    ELSE [s |-> b.s, m |-> NSub(b.m, a.m)]

\* int - int
BigSub(a, b) == BigAdd(a, BigNeg(b))

\* the floor of s * (q + r / d), 0 <= r < d, for the limbs q and r of qr
FloorOf(s, qr) ==
    IF s > 0 \/ qr.r = <<>> THEN [s |-> IF qr.q = <<>> THEN 1 ELSE s, m |-> qr.q]
    ELSE [s |-> s, m |-> NAdd(qr.q, <<1>>)]

\* int // d for a TLA+ integer d > 0
BigFloorDiv(a, d) == FloorOf(a.s, DivMod(a.m, Limbs(d)))

\* int <= int
BigLeq(a, b) == BigSub(b, a).s = 1

-----------------------------------------------------------------------------
(* Python floats: IEEE 754 binary64 with rounding to nearest, ties to even *)

\* the finite value s * m * 2^x, with an odd m
Fin(s, m, x) ==
    IF m = <<>> THEN [c |-> "finite", s |-> s, m |-> m, x |-> 0]
    ELSE LET t == TrailingZeros(m)
         IN  [c |-> "finite", s |-> s, m |-> Shr(m, t), x |-> x + t]

Inf(s) == [c |-> "inf", s |-> s, m |-> <<>>, x |-> 0]

NaN == [c |-> "nan", s |-> 1, m |-> <<>>, x |-> 0]

IsZero(a) == a.c = "finite" /\ a.m = <<>>

\* the float nearest to the finite value d: 53 bits for a normal number,
\* fewer below 2^-1022, infinity from 2^1024 on
\* an odd m without its drop > 0 low bits, to nearest, ties to even: the bits
\* dropped are half of the last place kept only when the one bit dropped is set
HalfEven(m, drop) ==
    LET kept == Shr(m, drop)
    IN  IF Bit(IF drop = 1 THEN kept ELSE m, IF drop = 1 THEN 0 ELSE drop - 1) = 1
        THEN NAdd(kept, <<1>>)
        ELSE kept

\* infinity from 2^1024 on
Overflow(r) == IF r.x + BitLen(r.m) > 1024 THEN Inf(r.s) ELSE r

\* d of L bits kept to p bits
RoundTo(d, L, p) ==
    IF L <= p THEN Overflow(d)
    ELSE Overflow(Fin(d.s, HalfEven(d.m, L - p), d.x + L - p))

RoundBits(d, L) == RoundTo(d, L, IF d.x + L >= -1021 THEN 53 ELSE d.x + L + 1074)

Round(d) == IF d.m = <<>> THEN d ELSE RoundBits(d, BitLen(d.m))

\* the product and the sum of two finite values, not rounded
ExactMul(a, b) == Fin(a.s * b.s, NMul(a.m, b.m), a.x + b.x)

\* the int a / 2^e of a finite value a, e <= a.x
Scaled(a, e) == [s |-> a.s, m |-> Shl(a.m, a.x - e)]

\* the finite value t * 2^e of an int t
Unscaled(t, e) == Fin(t.s, t.m, e)

SumAt(a, b, e) == Unscaled(BigAdd(Scaled(a, e), Scaled(b, e)), e)

ExactAdd(a, b) == SumAt(a, b, Min(a.x, b.x))

\* the float nearest to s * (n / d) * 2^x for limbs n and d > 0: a quotient of
\* 55 bits or more, with one more bit under it for what the division (a
\* remainder) and the scaling of n (bits cut) leave out
Sticky(s, q, inexact, x) ==
    Fin(s, IF inexact THEN MulC(q, 2, 1) ELSE q, IF inexact THEN x - 1 ELSE x)

StickyOf(s, qr, cut, x) == Sticky(s, qr.q, cut \/ qr.r # <<>>, x)

\* n * 2^k, k >= 0, divided by d
QuotientUp(s, n, d, x, k) == StickyOf(s, DivMod(Shl(n, k), d), FALSE, x - k)

\* n \div 2^k, k > 0, divided by d
QuotientDown(s, n, d, x, k) == StickyOf(s, DivMod(Shr(n, k), d), TrailingZeros(n) < k, x + k)

Quotient(s, n, d, x, k) ==
    IF k >= 0 THEN QuotientUp(s, n, d, x, k) ELSE QuotientDown(s, n, d, x, -k)

DivRound(s, n, d, x) ==
    Round(IF n = <<>> \/ d = <<1>> THEN Fin(s, n, x)
          ELSE Quotient(s, n, d, x, 55 + BitLen(d) - BitLen(n)))

\* the outcome of an expression: a value, or the exception it raises
Ok(v) == [ok |-> TRUE, val |-> v, err |-> ""]

Raise(x) == [ok |-> FALSE, val |-> 0, err |-> x]

\* a float result that an int operand or an int division has to fit: from
\* 2^1024 on there is no float for it and Python raises OverflowError
Finite(r) == IF r.c = "inf" THEN Raise("OverflowError") ELSE Ok(r)

\* float(i) for an int of the 32-bit range
FromInt(i) == Fin(IF i < 0 THEN -1 ELSE 1, Limbs(IF i < 0 THEN -i ELSE i), 0)

\* the float an int operand of any size becomes where it meets a float
\* (int + float, int * float, int / float): the nearest float, OverflowError
\* when that is past the largest float
ToFloat(i) == Finite(Round(Fin(i.s, i.m, 0)))

\* int / int: the float nearest to the quotient, ZeroDivisionError for a zero
\* divisor, OverflowError for a quotient past the largest float
TrueDiv(a, b) ==
    IF b.m = <<>> THEN Raise("ZeroDivisionError")
    ELSE Finite(DivRound(a.s * b.s, a.m, b.m, 0))

\* the float literal that reads n/d, d > 0
Q(n, d) == TrueDiv(BigInt(n), BigInt(d)).val

\* float * float
FMul(a, b) ==
    IF a.c = "nan" \/ b.c = "nan" THEN NaN
    ELSE IF a.c = "inf" \/ b.c = "inf"
    THEN (IF IsZero(a) \/ IsZero(b) THEN NaN ELSE Inf(a.s * b.s))
    ELSE Round(ExactMul(a, b))

\* b is so far under a that only its sign can matter to the rounding of a + b;
\* a value of that sign, under a quarter of the last place of a, stands for it
Negligible(b, a) ==
    a.m # <<>> /\ b.m # <<>> /\ (a.x + BitLen(a.m)) - (b.x + BitLen(b.m)) > 64

Under(a, b) == Fin(b.s, <<1>>, a.x + BitLen(a.m) - 60)

\* float + float
FAdd(a, b) ==
    IF a.c = "nan" \/ b.c = "nan" THEN NaN
    ELSE IF a.c = "inf" /\ b.c = "inf" THEN (IF a.s = b.s THEN a ELSE NaN)
    ELSE IF a.c = "inf" THEN a
    ELSE IF b.c = "inf" THEN b
    ELSE Round(ExactAdd(IF Negligible(a, b) THEN Under(b, a) ELSE a,
                        IF Negligible(b, a) THEN Under(a, b) ELSE b))

\* float / float
FDiv(a, b) ==
    IF IsZero(b) THEN Raise("ZeroDivisionError")
    ELSE IF a.c = "nan" \/ b.c = "nan" THEN Ok(NaN)
    ELSE IF a.c = "inf" THEN Ok(IF b.c = "inf" THEN NaN ELSE Inf(a.s * b.s))
    ELSE IF b.c = "inf" THEN Ok(Fin(a.s * b.s, <<>>, 0))
    ELSE Ok(DivRound(a.s * b.s, a.m, b.m, a.x - b.x))

\* -1, 0, 1 as a < b, a = b, a > b, for a and b other than nan
Cmp(a, b) ==
    LET sa == IF IsZero(a) THEN 0 ELSE a.s
        sb == IF IsZero(b) THEN 0 ELSE b.s
        ta == a.x + BitLen(a.m)
        tb == b.x + BitLen(b.m)
        e  == Min(a.x, b.x)
    IN  IF sa # sb THEN (IF sa < sb THEN -1 ELSE 1)
        ELSE IF sa = 0 THEN 0
        ELSE IF a.c = "inf" \/ b.c = "inf"
        THEN (IF a.c = b.c THEN 0 ELSE IF a.c = "inf" THEN sa ELSE -sa)
        ELSE IF ta # tb THEN (IF ta < tb THEN -sa ELSE sa)
        ELSE sa * NCmp(Shl(a.m, a.x - e), Shl(b.m, b.x - e))

\* a < b and a <= b
FLess(a, b) == a.c # "nan" /\ b.c # "nan" /\ Cmp(a, b) < 0

FLeq(a, b) == a.c # "nan" /\ b.c # "nan" /\ Cmp(a, b) <= 0

\* k >= r for an int k and a float r
IntGeq(k, r) == FLeq(r, FromInt(k))

\* the int above s * (q + f) for limbs q and a fraction 0 < f < 1
Above(s, q) ==
    IF s > 0 THEN [s |-> 1, m |-> NAdd(q, <<1>>)]
    ELSE [s |-> IF q = <<>> THEN 1 ELSE -1, m |-> q]

\* math.ceil(r), an int
Ceil(r) ==
    IF r.c = "nan" THEN Raise("ValueError")
    ELSE IF r.c = "inf" THEN Raise("OverflowError")
    ELSE IF r.m = <<>> THEN Ok(BigInt(0))
    ELSE IF r.x >= 0 THEN Ok([s |-> r.s, m |-> Shl(r.m, r.x)])
    ELSE Ok(Above(r.s, Shr(r.m, -r.x)))

\* round(r, 3): the decimal with three places nearest to the value of r, ties
\* to even, read back as a float.  r * 1000 = (125 * m) / 2^(-x - 3)
Thousandths(n, drop) == IF drop <= 0 THEN Shl(n, -drop) ELSE HalfEven(n, drop)

Round3(r) ==
    IF r.c # "finite" \/ r.x >= 0 THEN r
    ELSE DivRound(r.s, Thousandths(MulC(r.m, 125, 0), -r.x - 3), Limbs(1000), 0)

\* dict.get(k, default)
Get(dict, k, default) == IF k \in DOMAIN dict THEN dict[k] ELSE default

-----------------------------------------------------------------------------
(* The float literals of the source and the instance catalog, in its       *)
(* declared order (a dict keeps it)                                        *)

\* 0.0, line 122
Zero == FromInt(0)

\* 1.0, line 162
One == FromInt(1)

\* 3.33, line 126
default_storage_multiplier == Q(333, 100)

\* 0.05, line 152
default_lexical_latency == Q(5, 100)

\* 0.3, line 175
default_vector_latency == Q(3, 10)

\* 3.75, line 162
scalar_factor == Q(375, 100)

\* 1.1, lines 166 and 169
ram_overhead == Q(11, 10)

\* 2.25, line 58
default_reindex_space_multiplier == Q(225, 100)

\* 1024**3, lines 150, 151, 173, 174
GiB == FromInt(1024 ^ 3)

search_instances ==
    << [name |-> "S20", ram_gigs |-> 4,   storage_gigs |-> 80,   vCPU |-> 2,  price_hr |-> Q(16, 100)],
       [name |-> "S30", ram_gigs |-> 8,   storage_gigs |-> 161,  vCPU |-> 4,  price_hr |-> Q(33, 100)],
       [name |-> "S40", ram_gigs |-> 16,  storage_gigs |-> 322,  vCPU |-> 8,  price_hr |-> Q(68, 100)],
       [name |-> "S50", ram_gigs |-> 32,  storage_gigs |-> 644,  vCPU |-> 16, price_hr |-> Q(140, 100)],
       [name |-> "S60", ram_gigs |-> 64,  storage_gigs |-> 1288, vCPU |-> 32, price_hr |-> Q(252, 100)],
       [name |-> "S70", ram_gigs |-> 96,  storage_gigs |-> 1932, vCPU |-> 48, price_hr |-> Q(357, 100)],
       [name |-> "S80", ram_gigs |-> 128, storage_gigs |-> 2576, vCPU |-> 64, price_hr |-> Q(466, 100)] >>

NoInstance == "Custom sizing required. No suitable instance found."

-----------------------------------------------------------------------------
(* _get_total_autocomplete_chars                                           *)

\* line 114: the average token length the nGram formula uses
ngram_avg_chars_default_max(f) ==
    LET max_grams == Get(f, "max_grams", 15)
    IN  Max(max_grams, Get(f, "avg_chars", max_grams))

ngram_avg_chars(f) ==
    LET max_grams == Get(f, "max_grams", 15)
    IN  Max(max_grams, Get(f, "avg_chars", 30))

get_total_autocomplete_chars_no_square(f) ==
    LET min_grams == BigInt(Get(f, "min_grams", 3))
        max_grams == BigInt(Get(f, "max_grams", 15))
        type      == Get(f, "autocomplete_type", "None")
    IN  IF type = "edgeGram"
        THEN Ok(BigFloorDiv(BigMul(BigAdd(BigSub(max_grams, min_grams), BigInt(1)),
                                   BigAdd(max_grams, min_grams)), 2))
        ELSE IF type = "nGram"
        THEN LET avg   == BigInt(ngram_avg_chars(f))
                 term1 == BigFloorDiv(
                              BigMul(BigMul(BigAdd(avg, BigInt(1)),
                                            BigAdd(BigSub(max_grams, min_grams), BigInt(1))),
                                     BigAdd(max_grams, min_grams)), 2)
                 term2 == BigFloorDiv(
                              BigMul(BigMul(max_grams, BigAdd(max_grams, BigInt(1))),
                                     BigAdd(BigMul(BigInt(2), max_grams), BigInt(1))), 6)
                 term3 == BigFloorDiv(
                              BigMul(BigMul(min_grams, BigAdd(min_grams, BigInt(1))),
                                     BigAdd(BigMul(BigInt(2), min_grams), BigInt(1))), 6)
             IN  Ok(BigAdd(BigSub(term1, term2), term3))
        ELSE Raise("ValueError")

\* lines 110-119, an int
get_total_autocomplete_chars(f) ==
    LET min_grams == BigInt(Get(f, "min_grams", 3))
        max_grams == BigInt(Get(f, "max_grams", 15))
        type      == Get(f, "autocomplete_type", "None")
    IN  IF type = "edgeGram"
        THEN Ok(BigFloorDiv(BigMul(BigAdd(BigSub(max_grams, min_grams), BigInt(1)),
                                   BigAdd(max_grams, min_grams)), 2))
        ELSE IF type = "nGram"
        THEN LET avg   == BigInt(ngram_avg_chars(f))
                 term1 == BigFloorDiv(
                              BigMul(BigMul(BigAdd(avg, BigInt(1)),
                                            BigAdd(BigSub(max_grams, min_grams), BigInt(1))),
                                     BigAdd(max_grams, min_grams)), 2)
                 term2 == BigFloorDiv(
                              BigMul(BigMul(max_grams, BigAdd(max_grams, BigInt(1))),
                                     BigAdd(BigMul(BigInt(2), max_grams), BigInt(1))), 6)
                 term3 == BigFloorDiv(
                              BigMul(BigMul(min_grams, BigAdd(min_grams, BigInt(1))),
                                     BigAdd(BigMul(BigInt(2), min_grams), BigInt(1))), 6)
             IN  Ok(BigSub(BigAdd(BigSub(term1, term2), term3), BigMul(min_grams, min_grams)))
        ELSE Raise("ValueError")

-----------------------------------------------------------------------------
(* _calculate_basic_storage                                                *)

RECURSIVE calculate_basic_storage(_, _)

\* line 126, right of +=: ((size * storage_multiplier) * num_docs) * count
string_storage(num_docs, f) ==
    LET count == Get(f, "count", 1)
    IN  Ok(FMul(FMul(FMul(FromInt(Get(f, "size", 0)),
                          Get(f, "storage_multiplier", default_storage_multiplier)),
                     FromInt(num_docs)),
                FromInt(count)))

\* line 128, right of +=: a product of ints, which += converts to a float and
\* cannot (OverflowError) when the product is past the largest float
autocomplete_product(c, num_docs, count) ==
    IF c.ok THEN ToFloat(BigMul(BigMul(c.val, BigInt(num_docs)), BigInt(count)))
    ELSE c

autocomplete_storage_lazy(num_docs, f) ==
    IF num_docs * Get(f, "count", 1) = 0 THEN Ok(Zero)
    ELSE autocomplete_product(get_total_autocomplete_chars(f), num_docs, Get(f, "count", 1))

\* line 128, right of +=
autocomplete_storage(num_docs, f) ==
    autocomplete_product(get_total_autocomplete_chars(f), num_docs, Get(f, "count", 1))

embedded_storage_per_root(num_docs, f) ==
    LET count == Get(f, "count", 1)
    IN  IF "embedded_sizing" \notin DOMAIN f THEN Raise("KeyError")
        ELSE LET emb_sizing  == f["embedded_sizing"]
                 emb_storage == calculate_basic_storage(
                                    Get(emb_sizing, "num_documents", 1000),
                                    Get(emb_sizing, "fields", <<>>))
             IN  IF emb_storage.ok
                 THEN Ok(FMul(emb_storage.val, FromInt(count)))
                 ELSE emb_storage

\* lines 130-132, right of +=: (emb_storage * num_docs) * count
embedded_storage(num_docs, f) ==
    LET count == Get(f, "count", 1)
    IN  IF "embedded_sizing" \notin DOMAIN f THEN Raise("KeyError")
        ELSE LET emb_sizing  == f["embedded_sizing"]
                 emb_storage == calculate_basic_storage(
                                    Get(emb_sizing, "num_documents", 1000),
                                    Get(emb_sizing, "fields", <<>>))
             IN  IF emb_storage.ok
                 THEN Ok(FMul(FMul(emb_storage.val, FromInt(num_docs)),
                              FromInt(count)))
                 ELSE emb_storage

\* lines 126, 128 and 132, "storage += added": the right side is evaluated
\* first, and storage stays as it is when that raises
add_storage(storage, added) ==
    IF added.ok THEN Ok(FAdd(storage, added.val)) ELSE added

\* lines 125-132: the right side of += in the branch the field takes
field_added(num_docs, f) ==
    IF Get(f, "field_type", "None") = "String" THEN string_storage(num_docs, f)
    ELSE IF Get(f, "field_type", "None") = "Autocomplete" THEN autocomplete_storage(num_docs, f)
    ELSE embedded_storage(num_docs, f)

\* lines 124-132: one pass of the loop body, from the value of storage before
\* it to the value after it; a field of any other type (or of none) matches
\* no branch and leaves storage as it is
field_storage(storage, num_docs, f) ==
    IF Get(f, "field_type", "None") \in {"String", "Autocomplete", "Embedded"}
    THEN add_storage(storage, field_added(num_docs, f))
    ELSE Ok(storage)

\* lines 123-133: the loop over the fields in their order, from the outcome
\* so far (a value of storage, or the exception that ended the loop)
RECURSIVE basic_storage_loop(_, _, _)
basic_storage_loop(storage, num_docs, fields) ==
    IF fields = <<>> \/ ~storage.ok THEN storage
    ELSE basic_storage_loop(field_storage(storage.val, num_docs, Head(fields)),
                            num_docs, Tail(fields))

\* lines 121-133
calculate_basic_storage(num_docs, fields) ==
    basic_storage_loop(Ok(Zero), num_docs, fields)

-----------------------------------------------------------------------------
(* _calculate_embedded_docs                                                *)

RECURSIVE calculate_embedded_docs(_, _)

field_embedded_docs_count_direct_only(num_docs, f) ==
    IF Get(f, "field_type", "None") # "Embedded" THEN Ok(BigInt(0))
    ELSE IF "embedded_sizing" \notin DOMAIN f THEN Raise("KeyError")
    ELSE LET emb_sizing == f["embedded_sizing"]
             count      == BigInt(Get(f, "count", 1))
             direct     == BigMul(BigInt(Get(emb_sizing, "num_documents", 1000)), num_docs)
             recursive  == calculate_embedded_docs(direct, Get(emb_sizing, "fields", <<>>))
         IN  IF recursive.ok THEN Ok(BigAdd(BigMul(direct, count), recursive.val))
             ELSE recursive

\* lines 138-142: the documents one field adds to `added`, for an int num_docs
field_embedded_docs(num_docs, f) ==
    IF Get(f, "field_type", "None") # "Embedded" THEN Ok(BigInt(0))
    ELSE IF "embedded_sizing" \notin DOMAIN f THEN Raise("KeyError")
    ELSE LET emb_sizing == f["embedded_sizing"]
             count      == BigInt(Get(f, "count", 1))
             direct     == BigMul(BigInt(Get(emb_sizing, "num_documents", 1000)), num_docs)
             recursive  == calculate_embedded_docs(direct, Get(emb_sizing, "fields", <<>>))
         IN  IF recursive.ok THEN Ok(BigMul(BigAdd(direct, recursive.val), count))
             ELSE recursive

\* lines 135-143
calculate_embedded_docs(num_docs, fields) ==
    IF fields = <<>> THEN Ok(BigInt(0))
    ELSE LET head == field_embedded_docs(num_docs, Head(fields))
             rest == calculate_embedded_docs(num_docs, Tail(fields))
         IN  IF ~head.ok THEN head
             ELSE IF ~rest.ok THEN rest
             ELSE Ok(BigAdd(head.val, rest.val))

-----------------------------------------------------------------------------
(* _calculate_lexical_sizing and _calculate_vector_sizing                  *)

\* lines 149-154, the dict display: its values are evaluated in their order,
\* so the division by ram_denom fails before math.ceil can
lexical_dict(num_docs, storage_bytes, ram_bytes, vcpu, docs) ==
    IF ~ram_bytes.ok THEN ram_bytes
    ELSE IF ~vcpu.ok THEN vcpu
    ELSE IF ~docs.ok THEN docs
    ELSE Ok([storage_gb   |-> FDiv(storage_bytes, GiB).val,
             ram_gb       |-> FDiv(ram_bytes.val, GiB).val,
             vcpu         |-> vcpu.val,
             lexical_docs |-> BigAdd(BigInt(num_docs), docs.val)])

\* lines 147-154, from the outcome of _calculate_basic_storage
lexical_sizing_from(params, num_docs, fields, storage_bytes) ==
    IF ~storage_bytes.ok THEN storage_bytes
    ELSE lexical_dict(num_docs, storage_bytes.val,
                      FDiv(storage_bytes.val,
                           FromInt(Get(params, "index_size_to_ram_ratio_denominator", 8))),
                      Ceil(FMul(FromInt(Get(params, "qps", 20)),
                                Get(params, "latency", default_lexical_latency))),
                      calculate_embedded_docs(BigInt(num_docs), fields))

\* lines 145-154
calculate_lexical_sizing(params) ==
    LET num_docs == Get(params, "num_documents", 1000)
        fields   == Get(params, "fields", <<>>)
    IN  lexical_sizing_from(params, num_docs, fields,
                            calculate_basic_storage(num_docs, fields))

\* line 158: the generator summed, before the multiplication by num_docs
RECURSIVE vector_bytes_per_doc(_)
vector_bytes_per_doc(fields) ==
    IF fields = <<>> THEN BigInt(0)
    ELSE LET f == Head(fields)
         IN  BigAdd(IF Get(f, "field_type", "None") = "Vector"
                    THEN BigMul(BigMul(BigInt(Get(f, "dimensions", 1536)), BigInt(4)),
                                BigInt(Get(f, "count", 1)))
                    ELSE BigInt(0),
                    vector_bytes_per_doc(Tail(fields)))

\* float / float for a left operand that is the outcome of a conversion
div_float(a, b) == IF a.ok THEN FDiv(a.val, b) ELSE a

\* lines 162 and 165: base_storage / q_factor for the int base_storage; the
\* factors 3.75 and 1.0 are floats, which base_storage is converted for, and
\* 24 is an int
quantized_storage(base_storage, q_type) ==
    IF q_type = "binary" THEN TrueDiv(base_storage, BigInt(24))
    ELSE div_float(ToFloat(base_storage), IF q_type = "scalar" THEN scalar_factor ELSE One)

\* line 167, method database: base_storage + quantized_storage, for the
\* outcome `base` of the conversion of the int base_storage
database_bytes(ram_bytes, base, quantized) ==
    IF base.ok THEN Ok([ram_bytes |-> ram_bytes, storage_bytes |-> FAdd(base.val, quantized)])
    ELSE base

quantized_bytes_always_both(base_storage, quantized, method) ==
    database_bytes(FMul(ram_overhead, quantized), ToFloat(base_storage), quantized)

\* lines 166-167, for the float quantized_storage of line 165
quantized_bytes(base_storage, quantized, method) ==
    IF method = "database"
    THEN database_bytes(FMul(ram_overhead, quantized), ToFloat(base_storage), quantized)
    ELSE Ok([ram_bytes |-> FMul(ram_overhead, quantized), storage_bytes |-> quantized])

\* lines 169-170, for the outcome `base` of the conversion of the int
\* base_storage that base_storage * 1.1 asks for.  storage_bytes is the int
\* base_storage; it is given here as the float that its division by 1024**3
\* at line 173 starts from
unquantized_from(base) ==
    IF base.ok
    THEN Ok([ram_bytes |-> FMul(base.val, ram_overhead), storage_bytes |-> base.val])
    ELSE base

\* lines 169-170
unquantized_bytes(base_storage) == unquantized_from(ToFloat(base_storage))

\* lines 165-167, from the outcome of line 165
quantized_from(base_storage, quantized, method) ==
    IF quantized.ok THEN quantized_bytes(base_storage, quantized.val, method)
    ELSE quantized

\* lines 160-170
vector_bytes_from(base_storage, q_settings) ==
    IF Get(q_settings, "type", "none") # "none"
    THEN quantized_from(base_storage,
                        quantized_storage(base_storage, Get(q_settings, "type", "none")),
                        Get(q_settings, "method", "None"))
    ELSE unquantized_bytes(base_storage)

\* lines 157-170: ram_bytes and storage_bytes
vector_bytes(params) ==
    vector_bytes_from(BigMul(vector_bytes_per_doc(Get(params, "fields", <<>>)),
                             BigInt(Get(params, "num_documents", 1000))),
                      Get(params, "quantization_settings", <<>>))

\* lines 172-176, the dict display, from the outcome b of lines 157-170
vector_dict(b, vcpu) ==
    IF ~b.ok THEN b
    ELSE IF ~vcpu.ok THEN vcpu
    ELSE Ok([storage_gb |-> FDiv(b.val.storage_bytes, GiB).val,
             ram_gb     |-> FDiv(b.val.ram_bytes, GiB).val,
             vcpu       |-> vcpu.val])

\* lines 156-176
calculate_vector_sizing(params) ==
    vector_dict(vector_bytes(params),
                Ceil(FMul(FromInt(Get(params, "qps", 20)),
                          Get(params, "latency", default_vector_latency))))
-----------------------------------------------------------------------------
(* Inputs                                                                  *)

\* nesting depth of Embedded fields in the lexical inputs
MaxDepth == 2

\* gram lengths and token lengths of the autocomplete inputs
MaxGram == 5

\* grid points on each side of a catalog value, 1/2048 GB apart
GridSteps == 1

Merge(a, b) ==
    [k \in DOMAIN a \cup DOMAIN b |-> IF k \in DOMAIN a THEN a[k] ELSE b[k]]

String50 == [field_type |-> "String", size |-> 50]

LeafFields ==
    { String50,
      [field_type |-> "String", size |-> 100, count |-> 3, storage_multiplier |-> Q(7, 100)],
      [field_type |-> "Autocomplete", autocomplete_type |-> "edgeGram"],
      [field_type |-> "Autocomplete", autocomplete_type |-> "nGram", max_grams |-> 4, count |-> 2],
      [field_type |-> "Autocomplete", autocomplete_type |-> "prefix"],
      [field_type |-> "Autocomplete", count |-> 0],
      [field_type |-> "Vector", dimensions |-> 4],
      [field_type |-> "Geo", size |-> 50],
      [size |-> 50],
      [field_type |-> "Embedded", count |-> 2],
      [field_type |-> "Embedded", embedded_sizing |-> [fields |-> <<>>]] }

\* count (0 for none given) and num_documents of the Embedded fields
EmbParams == { <<0, 1, 5>>, <<1, 2, 3>>, <<1, 0, 0>> }

Embedded(p, fl) ==
    Merge([field_type |-> "Embedded",
           embedded_sizing |-> [num_documents |-> p[3], fields |-> fl]],
          IF p[1] = 1 THEN [count |-> p[2]] ELSE <<>>)

RECURSIVE FieldLists(_)
FieldLists(depth) ==
    {<<>>} \cup {<<l>> : l \in LeafFields}
    \cup (IF depth = 0 THEN {}
          ELSE LET E == {Embedded(p, fl) : p \in EmbParams, fl \in FieldLists(depth - 1)}
               IN  {<<e>> : e \in E} \cup {<<String50, e>> : e \in E})

LexicalTrees ==
    {[fields |-> fl] : fl \in FieldLists(0)}
    \cup {[num_documents |-> n, fields |-> fl] : n \in {0, 10}, fl \in FieldLists(MaxDepth)}

Vector128 == [field_type |-> "Vector", dimensions |-> 128]

\* 2.0**1023, a latency that takes qps * latency past the largest float
Huge == Fin(1, <<1>>, 1023)

\* the rest of the arguments: the query load of lexical_sizing, vector_sizing
\* and reindex_space_multiplier
Loads ==
    { [lexical |-> <<>>, multiplier |-> default_reindex_space_multiplier,
       vector  |-> [fields |-> <<>>]],
      [lexical |-> <<>>, multiplier |-> default_reindex_space_multiplier,
       vector  |-> [num_documents |-> 10, fields |-> <<Vector128>>,
                    quantization_settings |-> [type |-> "scalar", method |-> "database"]]],
      [lexical |-> [qps |-> 100, latency |-> Q(1, 4),
                    index_size_to_ram_ratio_denominator |-> 4],
       multiplier |-> FromInt(1),
       vector  |-> [num_documents |-> 10, fields |-> <<Vector128>>, qps |-> 400,
                    latency |-> Q(1, 5),
                    quantization_settings |-> [type |-> "binary", method |-> "in_memory"]]],
      [lexical |-> <<>>, multiplier |-> default_reindex_space_multiplier,
       vector  |-> [num_documents |-> 10, qps |-> 7, latency |-> Q(1, 2),
                    fields |-> <<[field_type |-> "Geo", dimensions |-> 4],
                                 [field_type |-> "Vector", dimensions |-> 4, count |-> 2]>>,
                    quantization_settings |-> [type |-> "none", method |-> "database"]]],
      [lexical |-> [qps |-> 100, latency |-> Q(7, 100)], multiplier |-> default_reindex_space_multiplier,
       vector  |-> [num_documents |-> 10, qps |-> 100, latency |-> Q(1, 4),
                    fields |-> <<[field_type |-> "Vector", dimensions |-> 4],
                                 [dimensions |-> 8]>>,
                    quantization_settings |-> [type |-> "scalar"]]],
      [lexical |-> <<>>, multiplier |-> FromInt(1),
       vector  |-> [num_documents |-> 0, fields |-> <<String50>>]],
      [lexical |-> [index_size_to_ram_ratio_denominator |-> 0],
       multiplier |-> default_reindex_space_multiplier,
       vector  |-> [fields |-> <<Vector128>>]],
      [lexical |-> <<>>, multiplier |-> default_reindex_space_multiplier,
       vector  |-> [fields |-> <<Vector128>>, latency |-> Huge]] }

\* the vector configurations of the vector estimator taken alone
VectorFieldLists ==
    { <<>>, <<Vector128>>, <<[field_type |-> "Vector"]>>,
      <<[field_type |-> "Vector", dimensions |-> 3, count |-> 2], Vector128>>,
      <<String50, Vector128>>, <<[dimensions |-> 4]>> }

QuantizationInputs ==
    {<<>>} \cup {[type |-> t] : t \in {"none", "scalar", "binary", "float16"}}
    \cup {[method |-> m] : m \in {"in_memory", "database"}}
    \cup {[type |-> t, method |-> m] : t \in {"none", "scalar", "binary", "float16"},
                                       m \in {"in_memory", "database"}}

WideVectorInputs ==
    {Merge(Merge([fields |-> fl], IF n < 0 THEN <<>> ELSE [num_documents |-> n]),
           IF q = <<>> THEN <<>> ELSE [quantization_settings |-> q]) :
        fl \in VectorFieldLists, n \in {-1, 0, 7, 1000}, q \in QuantizationInputs}
    \cup {[fields |-> <<Vector128>>, qps |-> 100, latency |-> Q(7, 100)],
          [fields |-> <<Vector128>>, latency |-> Huge]}

\* the Autocomplete descriptors; -1 stands for a key that is not given
AutocompleteInputs ==
    {Merge(Merge(Merge([field_type |-> "Autocomplete"],
                       IF t = "" THEN <<>> ELSE [autocomplete_type |-> t]),
                 IF lo < 0 THEN <<>> ELSE [min_grams |-> lo]),
           Merge(IF hi < 0 THEN <<>> ELSE [max_grams |-> hi],
                 IF av < 0 THEN <<>> ELSE [avg_chars |-> av])) :
        t \in {"", "edgeGram", "nGram", "prefix"},
        lo \in {-1} \cup 1..MaxGram,
        hi \in {-1, 31} \cup 1..MaxGram,
        av \in {-1, 40} \cup 1..(MaxGram + 1)}

\* the totals of lines 182-184 on a grid around every catalog value k: steps
\* of 1/2048, k -+ 1/16 (floats that round(x, 3) finds on a tie) and
\* k -+ 0.0005 (floats beside the decimal tie)
GridAround(k) ==
    {Q(k * 2048 + j, 2048) : j \in (-GridSteps)..GridSteps}
    \cup {Q(k * 16 - 1, 16), Q(k * 16 + 1, 16)}
    \cup {Q(k * 2000 - 1, 2000), Q(k * 2000 + 1, 2000)}

RamTotals ==
    {FromInt(0), FromInt(100)}
    \cup UNION {GridAround(search_instances[i].ram_gigs) : i \in DOMAIN search_instances}

StorageTotals ==
    {FromInt(0), FromInt(1500)}
    \cup UNION {GridAround(search_instances[i].storage_gigs) : i \in DOMAIN search_instances}

VcpuTotals ==
    {BigInt(0), BigInt(40)}
    \cup {BigInt(search_instances[i].vCPU + j) : i \in DOMAIN search_instances, j \in -1..1}

-----------------------------------------------------------------------------
(* The call                                                                *)

NoLexical ==
    [storage_gb |-> Zero, ram_gb |-> Zero, vcpu |-> BigInt(0), lexical_docs |-> BigInt(0)]

NoVector == [storage_gb |-> Zero, ram_gb |-> Zero, vcpu |-> BigInt(0)]

\* the locals before the call has assigned them
Unassigned ==
    /\ raised = ""
    /\ lexical_results = NoLexical
    /\ vector_results = NoVector
    /\ total_storage = Zero
    /\ total_ram = Zero
    /\ total_vcpu = BigInt(0)
    /\ idx = 0
    /\ suggested_instance = ""
    /\ result = <<>>
    /\ field = <<>>
    /\ avg_chars = 0
    /\ chars = <<>>

\* calculate_sizing_requirements(lexical_sizing, vector_sizing, reindex_space_multiplier)
Init ==
    /\ \E tree \in LexicalTrees, load \in Loads :
           /\ lexical_sizing = Merge(tree, load.lexical)
           /\ vector_sizing = load.vector
           /\ reindex_space_multiplier = load.multiplier
    /\ pc = "lexical"
    /\ Unassigned

\* line 179, returning
LexicalStep ==
    /\ pc = "lexical"
    /\ LET r == calculate_lexical_sizing(lexical_sizing)
       IN  /\ r.ok
           /\ lexical_results' = r.val
    /\ pc' = "vector"
    /\ UNCHANGED <<lexical_sizing, vector_sizing, reindex_space_multiplier, raised,
                   vector_results, total_storage, total_ram, total_vcpu, idx,
                   suggested_instance, result, field, avg_chars, chars>>

\* line 179, raising: nothing catches the exception and the call ends with it
LexicalRaise ==
    /\ pc = "lexical"
    /\ LET r == calculate_lexical_sizing(lexical_sizing)
       IN  /\ ~r.ok
           /\ raised' = r.err
    /\ pc' = "raised"
    /\ UNCHANGED <<lexical_sizing, vector_sizing, reindex_space_multiplier,
                   lexical_results, vector_results, total_storage, total_ram,
                   total_vcpu, idx, suggested_instance, result, field, avg_chars,
                   chars>>

\* line 180, returning
VectorStep ==
    /\ pc = "vector"
    /\ LET r == calculate_vector_sizing(vector_sizing)
       IN  /\ r.ok
           /\ vector_results' = r.val
    /\ pc' = "aggregate"
    /\ UNCHANGED <<lexical_sizing, vector_sizing, reindex_space_multiplier, raised,
                   lexical_results, total_storage, total_ram, total_vcpu, idx,
                   suggested_instance, result, field, avg_chars, chars>>

\* line 180, raising
VectorRaise ==
    /\ pc = "vector"
    /\ LET r == calculate_vector_sizing(vector_sizing)
       IN  /\ ~r.ok
           /\ raised' = r.err
    /\ pc' = "raised"
    /\ UNCHANGED <<lexical_sizing, vector_sizing, reindex_space_multiplier,
                   lexical_results, vector_results, total_storage, total_ram,
                   total_vcpu, idx, suggested_instance, result, field, avg_chars,
                   chars>>

\* lines 182-187
Aggregate ==
    /\ pc = "aggregate"
    /\ total_storage' = FMul(FAdd(lexical_results.storage_gb, vector_results.storage_gb),
                             reindex_space_multiplier)
    /\ total_ram' = FAdd(lexical_results.ram_gb, vector_results.ram_gb)
    /\ total_vcpu' = BigAdd(lexical_results.vcpu, vector_results.vcpu)
    /\ suggested_instance' = NoInstance
    /\ idx' = 1
    /\ pc' = "select"
    /\ UNCHANGED <<lexical_sizing, vector_sizing, reindex_space_multiplier, raised,
                   lexical_results, vector_results, result, field, avg_chars, chars>>

Suffices_without_ram(specs, ram, vcpu, storage) ==
    /\ BigLeq(vcpu, BigInt(specs.vCPU))
    /\ IntGeq(specs.storage_gigs, storage)

Suffices_without_storage(specs, ram, vcpu, storage) ==
    /\ IntGeq(specs.ram_gigs, ram)
    /\ BigLeq(vcpu, BigInt(specs.vCPU))

\* lines 189-191
Suffices(specs, ram, vcpu, storage) ==
    /\ IntGeq(specs.ram_gigs, ram)
    /\ BigLeq(vcpu, BigInt(specs.vCPU))
    /\ IntGeq(specs.storage_gigs, storage)

\* lines 188-191, condition false: on to the next entry
ScanSkip ==
    /\ pc = "select"
    /\ idx <= Len(search_instances)
    /\ ~Suffices(search_instances[idx], total_ram, total_vcpu, total_storage)
    /\ idx' = idx + 1
    /\ UNCHANGED <<lexical_sizing, vector_sizing, reindex_space_multiplier, pc, raised,
                   lexical_results, vector_results, total_storage, total_ram,
                   total_vcpu, suggested_instance, result, field, avg_chars, chars>>

\* lines 188-193, condition true: assign and break
ScanTake ==
    /\ pc = "select"
    /\ idx <= Len(search_instances)
    /\ Suffices(search_instances[idx], total_ram, total_vcpu, total_storage)
    /\ suggested_instance' = search_instances[idx].name
    /\ pc' = "return"
    /\ UNCHANGED <<lexical_sizing, vector_sizing, reindex_space_multiplier, raised,
                   lexical_results, vector_results, total_storage, total_ram,
                   total_vcpu, idx, result, field, avg_chars, chars>>

\* line 188, the catalog is exhausted
ScanExhaust ==
    /\ pc = "select"
    /\ idx > Len(search_instances)
    /\ pc' = "return"
    /\ UNCHANGED <<lexical_sizing, vector_sizing, reindex_space_multiplier, raised,
                   lexical_results, vector_results, total_storage, total_ram,
                   total_vcpu, idx, suggested_instance, result, field, avg_chars,
                   chars>>

\* lines 195-201
Return ==
    /\ pc = "return"
    /\ result' = << [StorageGb          |-> Round3(total_storage),
                     RAMGb              |-> Round3(total_ram),
                     vCPU               |-> total_vcpu,
                     LexicalDocs        |-> lexical_results.lexical_docs,
                     suggested_instance |-> suggested_instance] >>
    /\ pc' = "done"
    /\ UNCHANGED <<lexical_sizing, vector_sizing, reindex_space_multiplier, raised,
                   lexical_results, vector_results, total_storage, total_ram,
                   total_vcpu, idx, suggested_instance, field, avg_chars, chars>>

Next ==
    \/ LexicalStep
    \/ LexicalRaise
    \/ VectorStep
    \/ VectorRaise
    \/ Aggregate
    \/ ScanSkip
    \/ ScanTake
    \/ ScanExhaust
    \/ Return

Spec == Init /\ [][Next]_vars

-----------------------------------------------------------------------------
(* The instance selection of lines 186-201 over a grid of totals            *)

InitSelect ==
    /\ lexical_sizing = <<>>
    /\ vector_sizing = <<>>
    /\ reindex_space_multiplier = default_reindex_space_multiplier
    /\ pc = "select"
    /\ raised = ""
    /\ lexical_results = NoLexical
    /\ vector_results = NoVector
    /\ total_storage \in StorageTotals
    /\ total_ram \in RamTotals
    /\ total_vcpu \in VcpuTotals
    /\ idx = 1
    /\ suggested_instance = NoInstance
    /\ result = <<>>
    /\ field = <<>>
    /\ avg_chars = 0
    /\ chars = <<>>

NextSelect ==
    \/ ScanSkip
    \/ ScanTake
    \/ ScanExhaust
    \/ Return

SpecSelect == InitSelect /\ [][NextSelect]_vars

-----------------------------------------------------------------------------
(* _calculate_vector_sizing over a wider range of configurations           *)

InitVector ==
    /\ lexical_sizing = <<>>
    /\ vector_sizing \in WideVectorInputs
    /\ reindex_space_multiplier = default_reindex_space_multiplier
    /\ pc = "vector"
    /\ Unassigned

NextVector ==
    \/ VectorStep
    \/ VectorRaise

SpecVector == InitVector /\ [][NextVector]_vars

-----------------------------------------------------------------------------
(* _get_total_autocomplete_chars(field)                                    *)

EffectiveMin(f) == Get(f, "min_grams", 3)

EffectiveMax(f) == Get(f, "max_grams", 15)

InitAutocomplete ==
    /\ lexical_sizing = <<>>
    /\ vector_sizing = <<>>
    /\ reindex_space_multiplier = default_reindex_space_multiplier
    /\ pc = "autocomplete"
    /\ raised = ""
    /\ lexical_results = NoLexical
    /\ vector_results = NoVector
    /\ total_storage = Zero
    /\ total_ram = Zero
    /\ total_vcpu = BigInt(0)
    /\ idx = 0
    /\ suggested_instance = ""
    /\ result = <<>>
    /\ field \in {f \in AutocompleteInputs : EffectiveMin(f) <= EffectiveMax(f)}
    /\ avg_chars = 0
    /\ chars = <<>>

\* lines 110-118, returning
AutocompleteReturn ==
    /\ pc = "autocomplete"
    /\ LET r == get_total_autocomplete_chars(field)
       IN  /\ r.ok
           /\ chars' = <<r.val>>
    /\ avg_chars' = IF Get(field, "autocomplete_type", "None") = "nGram"
                    THEN ngram_avg_chars(field) ELSE 0
    /\ pc' = "returned"
    /\ UNCHANGED <<lexical_sizing, vector_sizing, reindex_space_multiplier, raised,
                   lexical_results, vector_results, total_storage, total_ram,
                   total_vcpu, idx, suggested_instance, result, field>>

\* line 119
AutocompleteRaise ==
    /\ pc = "autocomplete"
    /\ LET r == get_total_autocomplete_chars(field)
       IN  /\ ~r.ok
           /\ raised' = r.err
    /\ pc' = "raised"
    /\ UNCHANGED <<lexical_sizing, vector_sizing, reindex_space_multiplier,
                   lexical_results, vector_results, total_storage, total_ram,
                   total_vcpu, idx, suggested_instance, result, field, avg_chars,
                   chars>>

NextAutocomplete ==
    \/ AutocompleteReturn
    \/ AutocompleteRaise

SpecAutocomplete == InitAutocomplete /\ [][NextAutocomplete]_vars

-----------------------------------------------------------------------------
(* Instance selection (SpecSelect)                                         *)

Returned == pc = "done" /\ result # <<>>

\* the three comparisons of the claim, for catalog entry i
Fits(i) ==
    /\ IntGeq(search_instances[i].ram_gigs, total_ram)
    /\ BigLeq(total_vcpu, BigInt(search_instances[i].vCPU))
    /\ IntGeq(search_instances[i].storage_gigs, total_storage)

ExceedsS80 ==
    \/ ~IntGeq(128, total_ram)
    \/ ~BigLeq(total_vcpu, BigInt(64))
    \/ ~IntGeq(2576, total_storage)

\* C1: the instance returned is the first catalog entry, in the order S20..S80,
\* that meets all three unrounded totals; every other entry that meets them is
\* larger in ram_gigs, storage_gigs, vCPU and price_hr; and the sentinel is
\* returned exactly when a total exceeds the S80 value (128, 64, 2576).
C1_SmallestSufficient ==
    Returned =>
        LET chosen == result[1].suggested_instance
            S      == {i \in DOMAIN search_instances : Fits(i)}
        IN  /\ chosen = NoInstance <=> ExceedsS80
            /\ chosen = NoInstance <=> S = {}
            /\ S # {} =>
                 \E i \in S :
                    /\ chosen = search_instances[i].name
                    /\ \A j \in S \ {i} :
                          /\ j > i
                          /\ search_instances[j].ram_gigs > search_instances[i].ram_gigs
                          /\ search_instances[j].storage_gigs > search_instances[i].storage_gigs
                          /\ search_instances[j].vCPU > search_instances[i].vCPU
                          /\ FLess(search_instances[i].price_hr, search_instances[j].price_hr)

\* a call that passed over the first four entries, took S60 and left S70 and S80
C1_Witness ==
    /\ Returned
    /\ result[1].suggested_instance = "S60"
    /\ ~Fits(4)
    /\ Fits(6)

ExampleTotals ==
    /\ total_ram = FromInt(100)
    /\ total_vcpu = BigInt(40)
    /\ total_storage = FromInt(1500)

\* C2 as stated: totals ram = 100, vcpu = 40, storage = 1500 select "S70".
C2_SelectsS70 == (Returned /\ ExampleTotals) => result[1].suggested_instance = "S70"

\* C2, amended: totals ram = 100, vcpu = 40, storage = 1500 select "S80"
\* (S70 has 96 GB of RAM, less than the 100 asked for).
C2_SelectsS80 == (Returned /\ ExampleTotals) => result[1].suggested_instance = "S80"

C2_Witness == Returned /\ ExampleTotals /\ idx = 7

\* C10: whenever a catalog name is returned, the rounded StorageGb and RAMGb
\* and the vCPU that are reported do not exceed that instance's storage_gigs,
\* ram_gigs and vCPU.
C10_ReportedWithinInstance ==
    Returned =>
        \A i \in DOMAIN search_instances :
            result[1].suggested_instance = search_instances[i].name =>
                /\ IntGeq(search_instances[i].storage_gigs, result[1].StorageGb)
                /\ IntGeq(search_instances[i].ram_gigs, result[1].RAMGb)
                /\ BigLeq(result[1].vCPU, BigInt(search_instances[i].vCPU))

\* a total just under 4 GB that is reported as 4.0, the whole of S20's RAM
C10_Witness ==
    /\ Returned
    /\ result[1].suggested_instance = "S20"
    /\ total_ram = Q(4 * 2048 - 1, 2048)
    /\ result[1].RAMGb = FromInt(4)

-----------------------------------------------------------------------------
(* _get_total_autocomplete_chars (SpecAutocomplete)                        *)

\* the sum over g = lo..hi of g * (avg - g + 1)
RECURSIVE DirectSum(_, _, _)
DirectSum(lo, hi, avg) ==
    IF lo > hi THEN 0 ELSE lo * (avg - lo + 1) + DirectSum(lo + 1, hi, avg)

IsNGram == Get(field, "autocomplete_type", "None") = "nGram"

\* C3: for an nGram field with 1 <= min_grams <= max_grams <= avg_chars the
\* value returned equals the direct summation of g * (avg_chars - g + 1) over
\* g = min_grams..max_grams; min_grams = 1, max_grams = 5, avg_chars = 5 give 35.
C3_ClosedFormIsDirectSum ==
    (/\ pc = "returned"
     /\ IsNGram
     /\ {"min_grams", "max_grams", "avg_chars"} \subseteq DOMAIN field
     /\ 1 <= field.min_grams
     /\ field.min_grams <= field.max_grams
     /\ field.max_grams <= field.avg_chars)
    => /\ chars = <<BigInt(DirectSum(field.min_grams, field.max_grams, field.avg_chars))>>
       /\ (field.min_grams = 1 /\ field.max_grams = 5 /\ field.avg_chars = 5)
             => chars = <<BigInt(35)>>

C3_Witness ==
    /\ pc = "returned"
    /\ IsNGram
    /\ {"min_grams", "max_grams", "avg_chars"} \subseteq DOMAIN field
    /\ field.min_grams = 1 /\ field.max_grams = 5 /\ field.avg_chars = 5
    /\ chars = <<BigInt(35)>>

\* C4 as stated: the average token length of an nGram field is max_grams when
\* the field has no avg_chars, and never less than max_grams when it has one.
C4_DefaultsToMaxGrams ==
    (pc = "returned" /\ IsNGram) =>
        /\ "avg_chars" \notin DOMAIN field => avg_chars = EffectiveMax(field)
        /\ "avg_chars" \in DOMAIN field =>
              avg_chars = Max(EffectiveMax(field), field.avg_chars)

\* C4, amended: the average token length of an nGram field is 30 when the
\* field has no avg_chars (max_grams if max_grams is above 30), and never less
\* than max_grams when it has one: a smaller avg_chars is replaced by max_grams.
C4_DefaultsToThirty ==
    (pc = "returned" /\ IsNGram) =>
        /\ avg_chars >= EffectiveMax(field)
        /\ "avg_chars" \notin DOMAIN field =>
              /\ EffectiveMax(field) <= 30 => avg_chars = 30
              /\ EffectiveMax(field) > 30 => avg_chars = EffectiveMax(field)
        /\ "avg_chars" \in DOMAIN field =>
              /\ field.avg_chars < EffectiveMax(field) => avg_chars = EffectiveMax(field)
              /\ field.avg_chars >= EffectiveMax(field) => avg_chars = field.avg_chars

C4_Witness ==
    /\ pc = "returned"
    /\ IsNGram
    /\ "avg_chars" \notin DOMAIN field
    /\ EffectiveMax(field) = 4
    /\ avg_chars = 30

-----------------------------------------------------------------------------
(* The whole call (Spec)                                                   *)

KnownTypes == {"String", "Autocomplete", "Embedded", "Vector"}

\* some descriptor of the list, or of a nested list, has no known field_type
RECURSIVE HasUnknownType(_)
HasUnknownType(fields) ==
    \E i \in DOMAIN fields :
        LET f == fields[i]
        IN  \/ Get(f, "field_type", "None") \notin KnownTypes
            \/ /\ Get(f, "field_type", "None") = "Embedded"
               /\ "embedded_sizing" \in DOMAIN f
               /\ HasUnknownType(Get(f["embedded_sizing"], "fields", <<>>))

\* C5 as stated: a descriptor whose field_type is none of String, Autocomplete,
\* Embedded, Vector (or is missing), anywhere in the lexical or the vector field
\* list, makes the call fail: no SizingResult is returned.
C5_UnknownTypeFails ==
    (\/ HasUnknownType(Get(lexical_sizing, "fields", <<>>))
     \/ HasUnknownType(Get(vector_sizing, "fields", <<>>)))
    => result = <<>>

\* an Autocomplete field of an unsupported type or an Embedded field without
\* embedded_sizing, at any nesting depth
RECURSIVE HasStructuralError(_)
HasStructuralError(fields) ==
    \E i \in DOMAIN fields :
        LET f      == fields[i]
            f_type == Get(f, "field_type", "None")
        IN  \/ /\ f_type = "Autocomplete"
               /\ Get(f, "autocomplete_type", "None") \notin {"edgeGram", "nGram"}
            \/ /\ f_type = "Embedded"
               /\ "embedded_sizing" \notin DOMAIN f
            \/ /\ f_type = "Embedded"
               /\ "embedded_sizing" \in DOMAIN f
               /\ HasStructuralError(Get(f["embedded_sizing"], "fields", <<>>))

\* C6: when the lexical field tree holds a structural error at any depth,
\* whatever the num_documents and count values, the call ends in an error and
\* no SizingResult (no part of one) is ever produced.
C6_NoPartialResult ==
    HasStructuralError(Get(lexical_sizing, "fields", <<>>)) =>
        /\ result = <<>>
        /\ pc \in {"lexical", "raised"}
        /\ pc = "raised" => raised \in {"ValueError", "KeyError"}
        /\ lexical_results = NoLexical
        /\ suggested_instance = ""

\* the error sits under an Embedded field of count 0 in a root of 0 documents
C6_Witness ==
    /\ pc = "raised"
    /\ Get(lexical_sizing, "num_documents", 1000) = 0
    /\ Len(lexical_sizing.fields) = 1
    /\ Get(lexical_sizing.fields[1], "field_type", "None") = "Embedded"
    /\ Get(lexical_sizing.fields[1], "count", 1) = 0
    /\ "embedded_sizing" \in DOMAIN lexical_sizing.fields[1]
    /\ result = <<>>

LexicalDone == pc \in {"vector", "aggregate", "select", "return", "done"}

\* the sign of a float changed and dropped
Negate(a) == [a EXCEPT !.s = -a.s]

Magnitude(a) == [a EXCEPT !.s = 1]

\* a is b up to the rounding of a few float operations: |a - b| <= |b| / 2^45
WithinRounding(a, b) ==
    FLeq(Magnitude(ExactMul(ExactAdd(a, Negate(b)), Fin(1, <<1>>, 45))), Magnitude(b))

\* the bytes one String or Autocomplete field holds per document and
\* repetition, not rounded
LeafBytes(f) ==
    IF Get(f, "field_type", "None") = "String"
    THEN ExactMul(FromInt(Get(f, "size", 0)),
                  Get(f, "storage_multiplier", default_storage_multiplier))
    ELSE IF Get(f, "field_type", "None") = "Autocomplete"
    THEN ToFloat(get_total_autocomplete_chars(f).val).val
    ELSE Zero

\* storage read from the top down, not rounded: every String and Autocomplete
\* field weighs its bytes by its count and by `weight`, the product of the
\* num_documents and count values on the path to it; Vector fields weigh
\* nothing
RECURSIVE PathStorage(_, _)
PathStorage(weight, fields) ==
    IF fields = <<>> THEN Zero
    ELSE LET f == Head(fields)
             here == IF Get(f, "field_type", "None") = "Embedded"
                     THEN PathStorage(weight * Get(f, "count", 1)
                                        * Get(f["embedded_sizing"], "num_documents", 1000),
                                      Get(f["embedded_sizing"], "fields", <<>>))
                     ELSE ExactMul(LeafBytes(f), FromInt(weight * Get(f, "count", 1)))
         IN  ExactAdd(here, PathStorage(weight, Tail(fields)))

\* storage_bytes of line 147, back from storage_gb (1024**3 is a power of two)
StorageBytes == FMul(lexical_results.storage_gb, GiB)

\* root of N documents with one Embedded field of one String field
OneEmbeddedString ==
    /\ "num_documents" \in DOMAIN lexical_sizing
    /\ Len(lexical_sizing.fields) = 1
    /\ Get(lexical_sizing.fields[1], "field_type", "None") = "Embedded"
    /\ "embedded_sizing" \in DOMAIN lexical_sizing.fields[1]
    /\ LET inner == lexical_sizing.fields[1].embedded_sizing.fields
       IN  /\ Len(inner) = 1
           /\ Get(inner[1], "field_type", "None") = "String"
           /\ DOMAIN inner[1] = {"field_type", "size"}

\* C8: an Embedded field adds the storage of its own sub-schema times the outer
\* num_docs times its count, at every depth, so that the bytes of the whole
\* tree, as the call returns them, are, up to the rounding of the float
\* operations, the sum over its
\* String and Autocomplete fields of their bytes times the num_documents and
\* count values above them; a root of N documents with one Embedded field
\* (count c, n nested documents, one String field of size s) holds the float
\* N * c * (n * s * 3.33); Vector fields add nothing.
C8_EmbeddedStorage ==
    /\ pc = "vector" =>
           WithinRounding(StorageBytes,
                          PathStorage(Get(lexical_sizing, "num_documents", 1000),
                                      lexical_sizing.fields))
    /\ LexicalDone =>
        /\ OneEmbeddedString =>
              LET e == lexical_sizing.fields[1]
              IN  StorageBytes =
                     FMul(FromInt(lexical_sizing.num_documents * Get(e, "count", 1)),
                          FMul(FromInt(e.embedded_sizing.num_documents
                                         * e.embedded_sizing.fields[1].size),
                               default_storage_multiplier))
        /\ (\A i \in DOMAIN lexical_sizing.fields :
               Get(lexical_sizing.fields[i], "field_type", "None") = "Vector")
              => StorageBytes = Zero

\* N = 10, c = 1, n = 5, s = 50: 10 * 5 * 50 * 3.33 = 8325 bytes
C8_Witness ==
    /\ LexicalDone
    /\ OneEmbeddedString
    /\ lexical_sizing.num_documents = 10
    /\ "count" \notin DOMAIN lexical_sizing.fields[1]
    /\ lexical_sizing.fields[1].embedded_sizing.num_documents = 5
    /\ lexical_sizing.fields[1].embedded_sizing.fields[1].size = 50
    /\ StorageBytes = FromInt(8325)

\* documents read from the top down: every Embedded field adds the product of
\* the num_documents and count values on the path down to and including it
RECURSIVE PathDocs(_, _)
PathDocs(weight, fields) ==
    IF fields = <<>> THEN 0
    ELSE LET f == Head(fields)
             here == IF Get(f, "field_type", "None") = "Embedded"
                     THEN LET w == weight * Get(f["embedded_sizing"], "num_documents", 1000)
                                     * Get(f, "count", 1)
                          IN  w + PathDocs(w, Get(f["embedded_sizing"], "fields", <<>>))
                     ELSE 0
         IN  here + PathDocs(weight, Tail(fields))

\* C9: LexicalDocs is the root num_documents plus, for every Embedded field at
\* any depth, the product of the num_documents of the root and of the embedded
\* schemas down to that field times the product of the counts on that path;
\* 10 documents with one Embedded field of 5 give 50 more, 60 in all.
C9_ExpandedDocs ==
    /\ LexicalDone =>
          lexical_results.lexical_docs =
             BigInt(Get(lexical_sizing, "num_documents", 1000)
                      + PathDocs(Get(lexical_sizing, "num_documents", 1000),
                                 lexical_sizing.fields))
    /\ Returned => result[1].LexicalDocs = lexical_results.lexical_docs
    /\ (Returned /\ OneEmbeddedString
          /\ lexical_sizing.num_documents = 10
          /\ "count" \notin DOMAIN lexical_sizing.fields[1]
          /\ lexical_sizing.fields[1].embedded_sizing.num_documents = 5)
       => result[1].LexicalDocs = BigInt(60)

C9_Witness ==
    /\ Returned
    /\ OneEmbeddedString
    /\ lexical_sizing.num_documents = 10
    /\ "count" \notin DOMAIN lexical_sizing.fields[1]
    /\ lexical_sizing.fields[1].embedded_sizing.num_documents = 5
    /\ result[1].LexicalDocs = BigInt(60)

-----------------------------------------------------------------------------
(* _calculate_vector_sizing (SpecVector)                                   *)

\* num_documents * sum over the Vector fields of dimensions * 4 * count
BaseBytes ==
    LET fields == Get(vector_sizing, "fields", <<>>)
        V == {i \in DOMAIN fields : Get(fields[i], "field_type", "None") = "Vector"}
        RECURSIVE Sum(_)
        Sum(I) == IF I = {} THEN 0
                  ELSE LET i == CHOOSE x \in I : TRUE
                       IN  Get(fields[i], "dimensions", 1536) * 4 * Get(fields[i], "count", 1)
                             + Sum(I \ {i})
    IN  Get(vector_sizing, "num_documents", 1000) * Sum(V)

QuantizationType == Get(Get(vector_sizing, "quantization_settings", <<>>), "type", "none")

QuantizationMethod == Get(Get(vector_sizing, "quantization_settings", <<>>), "method", "None")

\* base_bytes / factor, with 3.75 for scalar, 24 for binary, 1.0 otherwise
QuantizedBytes ==
    IF QuantizationType = "scalar" THEN FDiv(FromInt(BaseBytes), scalar_factor).val
    ELSE IF QuantizationType = "binary" THEN FDiv(FromInt(BaseBytes), FromInt(24)).val
    ELSE FDiv(FromInt(BaseBytes), One).val

\* C7: with a quantization type other than none, ram_bytes = 1.1 * (base / factor)
\* and storage_bytes = base + base / factor for method database, base / factor
\* otherwise; with type none, ram_bytes = 1.1 * base and storage_bytes = base
\* whatever the method.  128 dimensions, 1000 documents, scalar, in_memory:
\* base = 512000 and storage_bytes = 512000 / 3.75.
C7_QuantizationAccounting ==
    pc = "aggregate" =>
        LET ram     == FMul(vector_results.ram_gb, GiB)
            storage == FMul(vector_results.storage_gb, GiB)
        IN  /\ QuantizationType # "none" =>
                 /\ ram = FMul(ram_overhead, QuantizedBytes)
                 /\ QuantizationMethod = "database"
                       => storage = FAdd(FromInt(BaseBytes), QuantizedBytes)
                 /\ QuantizationMethod # "database" => storage = QuantizedBytes
            /\ QuantizationType = "none" =>
                 /\ ram = FMul(ram_overhead, FromInt(BaseBytes))
                 /\ storage = FromInt(BaseBytes)
            /\ (/\ vector_sizing.fields = <<Vector128>>
                /\ Get(vector_sizing, "num_documents", 1000) = 1000
                /\ QuantizationType = "scalar"
                /\ QuantizationMethod = "in_memory")
               => /\ BaseBytes = 512000
                  /\ storage = FDiv(FromInt(512000), scalar_factor).val

C7_Witness ==
    /\ pc = "aggregate"
    /\ vector_sizing.fields = <<Vector128>>
    /\ "num_documents" \in DOMAIN vector_sizing
    /\ vector_sizing.num_documents = 1000
    /\ QuantizationType = "scalar"
    /\ QuantizationMethod = "in_memory"
    /\ FMul(vector_results.storage_gb, GiB) = FDiv(FromInt(512000), scalar_factor).val

====
